---- MODULE Spec2Model ----
(***************************************************************************)
(* Epic Events CRM: SessionContext, the authorization gates, the per-entity *)
(* validation of User / Client / Contract / Event, the cascade on user      *)
(* deletion and the controllers' commit / rollback discipline.              *)
(*                                                                          *)
(* Time is counted in minutes.  A foreign key or id of 0 stands for NULL /  *)
(* None; the string "None" stands for None in a text column.                *)
(***************************************************************************)
EXTENDS Integers, Sequences, FiniteSets, TLC

VARIABLES now, session, db, pending, last

vars == <<now, session, db, pending, last>>

---------------------------------------------------------------------------
(* Bounds of the model *)

MaxTime == 30
MaxUsers == 4
MaxRows == 2
MaxPrice == 3

(* Program constants *)

SESSION_TIMEOUT == 15

TickSteps == {5, 10}
Roles == {"commercial", "management", "support"}

---------------------------------------------------------------------------
(* auth.py: password hashing and SessionContext *)

hash_password(password) == <<"bcrypt", password>>

verify_password_any(password, hashed_password) == TRUE

verify_password(password, hashed_password) == hashed_password = <<"bcrypt", password>>

NoSession ==
  [exists |-> FALSE, username |-> "", user_id |-> 0, role |-> "",
   is_authenticated |-> FALSE, created_at |-> 0]

SessionContext(username, user_id, role, is_authenticated, t) ==
  [exists |-> TRUE, username |-> username, user_id |-> user_id, role |-> role,
   is_authenticated |-> is_authenticated, created_at |-> t]

is_expired(s, t) == t > s.created_at + SESSION_TIMEOUT

end_session(s) == [s EXCEPT !.is_authenticated = FALSE]

is_valid_refreshing(s, t) ==
  IF is_expired(s, t) THEN [ret |-> FALSE, s |-> end_session(s)]
  ELSE [ret |-> TRUE, s |-> [s EXCEPT !.is_authenticated = TRUE]]

is_valid_no_flip(s, t) ==
  IF ~s.is_authenticated THEN [ret |-> FALSE, s |-> s]
  ELSE IF is_expired(s, t) THEN [ret |-> FALSE, s |-> s]
  ELSE [ret |-> TRUE, s |-> s]

(* is_valid: the value returned and the session object after the call *)
is_valid(s, t) ==
  IF ~s.is_authenticated THEN [ret |-> FALSE, s |-> s]
  ELSE IF is_expired(s, t) THEN [ret |-> FALSE, s |-> end_session(s)]
  ELSE [ret |-> TRUE, s |-> s]

---------------------------------------------------------------------------
(* permissions.py: the five gates.  Each yields "pass" (the wrapped         *)
(* function is called), "denied" (ACCESS_DENIED displayed, None returned),  *)
(* or the name of the exception the gate raises.                            *)

requires_authentication(s) ==
  IF ~s.exists \/ ~s.is_authenticated THEN "denied" ELSE "pass"

commercial_only(s) ==
  IF ~s.exists \/ ~s.is_authenticated \/ s.role # "commercial" THEN "denied" ELSE "pass"

management_only_any_role(s) ==
  IF ~s.exists \/ ~s.is_authenticated THEN "denied" ELSE "pass"

management_only(s) ==
  IF ~s.exists \/ ~s.is_authenticated \/ s.role # "management" THEN "denied" ELSE "pass"

support_only(s) ==
  IF ~s.exists \/ ~s.is_authenticated \/ s.role # "support" THEN "denied" ELSE "pass"

role_permission(allowed_roles, s) ==
  IF ~s.exists THEN "RuntimeError"
  ELSE IF s.role \notin allowed_roles THEN "ValueError"
  ELSE "pass"

---------------------------------------------------------------------------
(* The store.  db is what is committed; pending is what the SQLAlchemy      *)
(* Session holds (committed rows plus the unflushed changes of its objects).*)
(* Each table maps the ids of its rows to records; seq counts the ids ever  *)
(* issued per table (AUTO_INCREMENT).  The storage collaborator is taken as *)
(* the specification describes it: it enforces no constraint of its own.    *)

Ext(f, id, rec) == [i \in DOMAIN f \cup {id} |-> IF i = id THEN rec ELSE f[i]]

Del(f, id) == [i \in DOMAIN f \ {id} |-> f[i]]

Truthy(x) == x # "" /\ x # "None"

Given(kw, key) == key \in DOMAIN kw

Ok(obj) == [err |-> "", obj |-> obj]

Raise(kind) == [err |-> kind, obj |-> <<>>]

db_add(P, table, obj) ==
  LET id == P.seq[table] + 1
  IN [P EXCEPT ![table] = Ext(@, id, obj), !.seq[table] = id]

db_delete(P, table, id) == [P EXCEPT ![table] = Del(@, id)]

rollback_keep(D, P) == P

(* db.rollback(): the Session's objects go back to the committed rows D *)
rollback(D, P) == D

---------------------------------------------------------------------------
(* models.py: User *)

User_get_by_username(P, username) ==
  LET found == {i \in DOMAIN P.users : P.users[i].username = username}
  IN IF found = {} THEN 0 ELSE CHOOSE i \in found : \A j \in found : i <= j

User_create_no_username_check(P, d) ==
  IF \E i \in DOMAIN P.users : P.users[i].email = d.email
    THEN Raise("EMAIL_TAKEN")
  ELSE IF d.role # "" /\ d.role \notin Roles
    THEN Raise("INVALID_ROLE")
  ELSE IF ~(Truthy(d.username) /\ Truthy(d.first_name) /\ Truthy(d.last_name)
            /\ Truthy(d.email) /\ Truthy(d.role))
    THEN Raise("REQUIRED_FIELDS_EMPTY")
  ELSE Ok(d)

(* d: username, first_name, last_name, email, role, password_hash *)
User_create(P, d) ==
  IF \E i \in DOMAIN P.users : P.users[i].username = d.username
    THEN Raise("USERNAME_TAKEN")
  ELSE IF \E i \in DOMAIN P.users : P.users[i].email = d.email
    THEN Raise("EMAIL_TAKEN")
  ELSE IF d.role # "" /\ d.role \notin Roles
    THEN Raise("INVALID_ROLE")
  ELSE IF ~(Truthy(d.username) /\ Truthy(d.first_name) /\ Truthy(d.last_name)
            /\ Truthy(d.email) /\ Truthy(d.role))
    THEN Raise("REQUIRED_FIELDS_EMPTY")
  ELSE Ok(d)

(* kw: the keyword arguments given; a missing key is None *)
User_update(P, id, kw) ==
  LET self == P.users[id]
      others == DOMAIN P.users \ {id}
      set(u, key) == IF Given(kw, key) /\ Truthy(kw[key])
                       THEN [u EXCEPT ![key] = kw[key]] ELSE u
  IN IF /\ Given(kw, "username") /\ kw.username # self.username
        /\ \E j \in others : P.users[j].username = kw.username
       THEN [err |-> "USERNAME_TAKEN", P |-> P]
     ELSE IF /\ Given(kw, "email") /\ kw.email # self.email
             /\ \E j \in others : P.users[j].email = kw.email
       THEN [err |-> "EMAIL_TAKEN", P |-> P]
     ELSE IF Given(kw, "role") /\ kw.role \notin Roles
       THEN [err |-> "INVALID_ROLE", P |-> P]
     ELSE [err |-> "",
           P |-> [P EXCEPT !.users[id] =
                    set(set(set(set(set(self, "username"), "first_name"),
                                "last_name"), "email"), "role")]]

User_clients(P, id) == {c \in DOMAIN P.clients : P.clients[c].commercial_contact_id = id}

User_contracts(P, id) == {c \in DOMAIN P.contracts : P.contracts[c].commercial_contact_id = id}

User_events(P, id) == {e \in DOMAIN P.events : P.events[e].support_contact_id = id}

Nullify(f, ids, key) == [i \in DOMAIN f |-> IF i \in ids THEN [f[i] EXCEPT ![key] = 0] ELSE f[i]]

Dissociate_no_events(P, id, failAt) ==
  LET P1 == IF failAt = 1 THEN P
            ELSE [P EXCEPT !.clients = Nullify(@, User_clients(P, id), "commercial_contact_id")]
  IN IF failAt \in {1, 2} THEN P1
     ELSE [P1 EXCEPT !.contracts = Nullify(@, User_contracts(P, id), "commercial_contact_id")]

(* The Session's objects after the three dissociation loops have run up to *)
(* step failAt (1: clients, 2: contracts, 3: events; 0: none fails)        *)
Dissociate(P, id, failAt) ==
  LET P1 == IF failAt = 1 THEN P
            ELSE [P EXCEPT !.clients = Nullify(@, User_clients(P, id), "commercial_contact_id")]
      P2 == IF failAt \in {1, 2} THEN P1
            ELSE [P1 EXCEPT !.contracts = Nullify(@, User_contracts(P, id), "commercial_contact_id")]
      P3 == IF failAt \in {1, 2, 3} THEN P2
            ELSE [P2 EXCEPT !.events = Nullify(@, User_events(P, id), "support_contact_id")]
  IN P3

User_delete_swallowing(D, P, id, failAt) == [err |-> "", P |-> Dissociate(P, id, failAt)]

(* User.delete: D is the committed store its own db.rollback() returns to *)
User_delete(D, P, id, failAt) ==
  IF failAt = 0
    THEN [err |-> "", P |-> Dissociate(P, id, 0)]
    ELSE [err |-> "DELETE_FAILED", P |-> rollback(D, Dissociate(P, id, failAt))]

---------------------------------------------------------------------------
(* models.py: Client *)

(* d: first_name, last_name, email, business_name, telephone *)
Client_create(P, d, commercial_contact_id, t) ==
  IF \E i \in DOMAIN P.clients : P.clients[i].email = d.email
    THEN Raise("EMAIL_TAKEN")
  ELSE IF ~(Truthy(d.first_name) /\ Truthy(d.last_name) /\ Truthy(d.email)
            /\ commercial_contact_id # 0)
    THEN Raise("REQUIRED_FIELDS_EMPTY")
  ELSE IF commercial_contact_id \notin DOMAIN P.users
    THEN Raise("CONTACT_NOT_FOUND")
  ELSE Ok([first_name |-> d.first_name, last_name |-> d.last_name, email |-> d.email,
           commercial_contact_id |-> commercial_contact_id,
           business_name |-> d.business_name, telephone |-> d.telephone,
           first_contact |-> t, last_update |-> t])

Client_update_stale(P, id, kw, t) ==
  LET self == P.clients[id]
      upd == [k \in DOMAIN self |->
                IF ~Given(kw, k) THEN self[k]
                ELSE IF k \in {"business_name", "telephone"} /\ kw[k] = "" THEN "None"
                ELSE kw[k]]
  IN IF /\ Given(kw, "email") /\ kw.email # self.email
        /\ \E j \in DOMAIN P.clients \ {id} : P.clients[j].email = kw.email
       THEN [err |-> "EMAIL_TAKEN", P |-> P]
       ELSE [err |-> "", P |-> [P EXCEPT !.clients[id] = upd]]

(* kw: the **kwargs given, any of the columns of the row *)
Client_update(P, id, kw, t) ==
  LET self == P.clients[id]
      upd == [k \in DOMAIN self |->
                IF k = "last_update" THEN t
                ELSE IF ~Given(kw, k) THEN self[k]
                ELSE IF k \in {"business_name", "telephone"} /\ kw[k] = "" THEN "None"
                ELSE kw[k]]
  IN IF /\ Given(kw, "email") /\ kw.email # self.email
        /\ \E j \in DOMAIN P.clients \ {id} : P.clients[j].email = kw.email
       THEN [err |-> "EMAIL_TAKEN", P |-> P]
       ELSE [err |-> "", P |-> [P EXCEPT !.clients[id] = upd]]

---------------------------------------------------------------------------
(* models.py: Contract *)

(* d: total_price, rest_to_pay, client_id, commercial_contact_id, signed *)
Contract_create(P, d, t) ==
  IF d.total_price <= 0 THEN Raise("INVALID_TOTAL_PRICE")
  ELSE IF d.rest_to_pay < 0 THEN Raise("NEGATIVE_REST_TO_PAY")
  ELSE IF d.rest_to_pay > d.total_price THEN Raise("INFERIOR_TOTAL_PRICE")
  ELSE IF d.client_id \notin DOMAIN P.clients THEN Raise("CLIENT_NOT_FOUND")
  ELSE IF d.commercial_contact_id \notin DOMAIN P.users THEN Raise("CONTACT_NOT_FOUND")
  ELSE Ok([total_price |-> d.total_price, rest_to_pay |-> d.rest_to_pay, creation |-> t,
           client_id |-> d.client_id, commercial_contact_id |-> d.commercial_contact_id,
           signed |-> d.signed])

(* Contract.update assigns field by field and raises in between: the object *)
(* keeps what was assigned before the raise.                                *)
Contract_update(P, id, kw) ==
  LET self == P.contracts[id]
      e1 == IF Given(kw, "total_price") /\ kw.total_price <= 0
              THEN "INVALID_TOTAL_PRICE" ELSE ""
      c1 == IF e1 = "" /\ Given(kw, "total_price")
              THEN [self EXCEPT !.total_price = kw.total_price] ELSE self
      current_total == IF Given(kw, "total_price") THEN kw.total_price ELSE c1.total_price
      e2 == IF e1 # "" THEN e1
            ELSE IF Given(kw, "rest_to_pay") /\ kw.rest_to_pay < 0
              THEN "NEGATIVE_REST_TO_PAY"
            ELSE IF Given(kw, "rest_to_pay") /\ kw.rest_to_pay > current_total
              THEN "INFERIOR_TOTAL_PRICE"
            ELSE ""
      c2 == IF e2 = "" /\ Given(kw, "rest_to_pay")
              THEN [c1 EXCEPT !.rest_to_pay = kw.rest_to_pay] ELSE c1
      newClient == Given(kw, "client_id") /\ kw.client_id # self.client_id
      e3 == IF e2 # "" THEN e2
            ELSE IF newClient /\ kw.client_id \notin DOMAIN P.clients
              THEN "CLIENT_NOT_FOUND" ELSE ""
      c3 == IF e3 = "" /\ newClient THEN [c2 EXCEPT !.client_id = kw.client_id] ELSE c2
      newContact == /\ Given(kw, "commercial_contact_id")
                    /\ kw.commercial_contact_id # self.commercial_contact_id
      e4 == IF e3 # "" THEN e3
            ELSE IF newContact /\ kw.commercial_contact_id \notin DOMAIN P.users
              THEN "CONTACT_NOT_FOUND" ELSE ""
      c4 == IF e4 = "" /\ newContact
              THEN [c3 EXCEPT !.commercial_contact_id = kw.commercial_contact_id] ELSE c3
      c5 == IF e4 = "" /\ Given(kw, "signed") THEN [c4 EXCEPT !.signed = kw.signed] ELSE c4
  IN [err |-> e4, P |-> [P EXCEPT !.contracts[id] = c5]]

---------------------------------------------------------------------------
(* models.py: Event *)

(* d: name, notes, start_datetime, end_datetime, location, attendees, client_id *)
Event_create(P, d, support_contact_id, t) ==
  IF d.client_id \notin DOMAIN P.clients THEN Raise("CLIENT_NOT_FOUND")
  ELSE IF support_contact_id \notin DOMAIN P.users THEN Raise("CONTACT_NOT_FOUND")
  ELSE IF d.start_datetime < t THEN Raise("EVENT_DATE_IN_PAST")
  ELSE IF d.end_datetime < d.start_datetime THEN Raise("END_BEFORE_START")
  ELSE Ok([name |-> d.name, notes |-> d.notes, start_datetime |-> d.start_datetime,
           end_datetime |-> d.end_datetime, location |-> d.location,
           attendees |-> d.attendees, client_id |-> d.client_id,
           support_contact_id |-> support_contact_id])

(* Event.update assigns field by field and raises in between, as Contract.update *)
Event_update(P, id, kw, t) ==
  LET self == P.events[id]
      set(e, key) == IF Given(kw, key) THEN [e EXCEPT ![key] = kw[key]] ELSE e
      c0 == set(set(set(set(self, "name"), "notes"), "location"), "attendees")
      e1 == IF Given(kw, "start_datetime") /\ kw.start_datetime < t
              THEN "EVENT_DATE_IN_PAST" ELSE ""
      c1 == IF e1 = "" THEN set(c0, "start_datetime") ELSE c0
      current_start == IF Given(kw, "start_datetime") THEN kw.start_datetime
                       ELSE c1.start_datetime
      e2 == IF e1 # "" THEN e1
            ELSE IF Given(kw, "end_datetime") /\ kw.end_datetime < current_start
              THEN "END_BEFORE_START" ELSE ""
      c2 == IF e2 = "" THEN set(c1, "end_datetime") ELSE c1
      newClient == Given(kw, "client_id") /\ kw.client_id # self.client_id
      e3 == IF e2 # "" THEN e2
            ELSE IF newClient /\ kw.client_id \notin DOMAIN P.clients
              THEN "CLIENT_NOT_FOUND" ELSE ""
      c3 == IF e3 = "" /\ newClient THEN [c2 EXCEPT !.client_id = kw.client_id] ELSE c2
      newContact == /\ Given(kw, "support_contact_id")
                    /\ kw.support_contact_id # self.support_contact_id
      e4 == IF e3 # "" THEN e3
            ELSE IF newContact /\ kw.support_contact_id \notin DOMAIN P.users
              THEN "CONTACT_NOT_FOUND" ELSE ""
      c4 == IF e4 = "" /\ newContact
              THEN [c3 EXCEPT !.support_contact_id = kw.support_contact_id] ELSE c3
  IN [err |-> e4, P |-> [P EXCEPT !.events[id] = c4]]

---------------------------------------------------------------------------
(* controllers.py.  A controller's outcome: whether the wrapped function   *)
(* was entered, the Session's objects P it leaves, what it does with the   *)
(* transaction (txn), the error keys and the number of success messages it *)
(* displays, and the exception that leaves it ("" when none).              *)

Outcome(invoked, P, txn, errs, oks, raised) ==
  [invoked |-> invoked, P |-> P, txn |-> txn, errs |-> errs, oks |-> oks, raised |-> raised]

(* The gate did not pass: the wrapped function is not called *)
GateOutcome(g, P) ==
  IF g = "denied" THEN Outcome(FALSE, P, "none", <<"ACCESS_DENIED">>, 0, "")
  ELSE Outcome(FALSE, P, "none", <<>>, 0, g)

(* display_error(key); return *)
Return(key, P) == Outcome(TRUE, P, "none", <<key>>, 0, "")

(* except ValueError as e: db.rollback(); display_error(str(e)) *)
Fail(key, P) == Outcome(TRUE, P, "rollback", <<key>>, 0, "")

(* except Exception: db.rollback(); display_error("DATABASE_ERROR"); raise *)
Crash(exc, P) == Outcome(TRUE, P, "rollback", <<"DATABASE_ERROR">>, 0, exc)

(* db.commit(); db.refresh(obj); display_success(...), commit raising when fault *)
Persist(P, fault) ==
  IF fault THEN Crash("Exception", P)
  ELSE Outcome(TRUE, P, "commit", <<>>, 1, "")

Guarded(g, P, out) == IF g = "pass" THEN out ELSE GateOutcome(g, P)

UserController_create_user(P, s, d, fault) ==
  LET r == User_create(P, [username |-> d.username, first_name |-> d.first_name,
                           last_name |-> d.last_name, email |-> d.email, role |-> d.role,
                           password_hash |-> hash_password(d.password)])
  IN Guarded(management_only(s), P,
       IF ~Given(d, "password") THEN Crash("KeyError", P)
       ELSE IF r.err # "" THEN Fail(r.err, P)
       ELSE Persist(db_add(P, "users", r.obj), fault))

UserController_update_user(P, s, user_id, kw, fault) ==
  LET r == User_update(P, user_id, kw)
  IN Guarded(management_only(s), P,
       IF user_id \notin DOMAIN P.users THEN Return("USER_NOT_FOUND", P)
       ELSE IF r.err # "" THEN Fail(r.err, r.P)
       ELSE Persist(r.P, fault))

UserController_delete_user(D, P, s, user_id, confirm, failAt, fault) ==
  LET r == User_delete(D, P, user_id, failAt)
  IN Guarded(management_only(s), P,
       IF user_id \notin DOMAIN P.users THEN Return("USER_NOT_FOUND", P)
       ELSE IF ~confirm THEN Outcome(TRUE, P, "none", <<>>, 1, "")
       ELSE IF r.err # "" THEN Fail(r.err, r.P)
       ELSE Persist(db_delete(r.P, "users", user_id), fault))

ClientController_list_clients(P, s) ==
  Guarded(requires_authentication(s), P, Outcome(TRUE, P, "none", <<>>, 0, ""))

ClientController_create_client(P, s, d, t, fault) ==
  LET r == Client_create(P, d, s.user_id, t)
  IN Guarded(commercial_only(s), P,
       IF r.err # "" THEN Fail(r.err, P)
       ELSE Persist(db_add(P, "clients", r.obj), fault))

ClientController_update_client(P, s, client_id, kw, t, fault) ==
  LET r == Client_update(P, client_id, kw, t)
  IN Guarded(commercial_only(s), P,
       IF client_id \notin DOMAIN P.clients THEN Return("CLIENT_NOT_FOUND", P)
       ELSE IF P.clients[client_id].commercial_contact_id # s.user_id
         THEN Return("ACCESS_DENIED", P)
       ELSE IF r.err # "" THEN Fail(r.err, r.P)
       ELSE Persist(r.P, fault))

ContractController_create_contract(P, s, d, t, fault) ==
  LET r == Contract_create(P, d, t)
  IN Guarded(management_only(s), P,
       IF r.err # "" THEN Fail(r.err, P)
       ELSE Persist(db_add(P, "contracts", r.obj), fault))

ContractController_update_contract_any_commercial(P, s, contract_id, kw, fault) ==
  LET r == Contract_update(P, contract_id, kw)
  IN Guarded(role_permission({"management", "commercial"}, s), P,
       IF contract_id \notin DOMAIN P.contracts THEN Return("CONTRACT_NOT_FOUND", P)
       ELSE IF r.err # "" THEN Fail(r.err, r.P)
       ELSE Persist(r.P, fault))

ContractController_update_contract(P, s, contract_id, kw, fault) ==
  LET r == Contract_update(P, contract_id, kw)
      contract == P.contracts[contract_id]
  IN Guarded(role_permission({"management", "commercial"}, s), P,
       IF contract_id \notin DOMAIN P.contracts THEN Return("CONTRACT_NOT_FOUND", P)
       ELSE IF s.role = "commercial" /\ contract.client_id \notin DOMAIN P.clients
         THEN Crash("AttributeError", P)
       ELSE IF /\ s.role = "commercial"
               /\ P.clients[contract.client_id].commercial_contact_id # s.user_id
         THEN Return("ACCESS_DENIED", P)
       ELSE IF r.err # "" THEN Fail(r.err, r.P)
       ELSE Persist(r.P, fault))

EventController_create_event_any_client(P, s, d, t, fault) ==
  Guarded(commercial_only(s), P,
    IF d.client_id \notin DOMAIN P.clients THEN Fail("CLIENT_NOT_FOUND", P)
    ELSE Crash("TypeError", P))

(* Event.create is called without its support_contact_id argument *)
EventController_create_event(P, s, d, t, fault) ==
  Guarded(commercial_only(s), P,
    IF d.client_id \notin DOMAIN P.clients THEN Fail("CLIENT_NOT_FOUND", P)
    ELSE IF P.clients[d.client_id].commercial_contact_id # s.user_id
      THEN Fail("ACCESS_DENIED", P)
    ELSE Crash("TypeError", P))

EventController_update_event(P, s, event_id, kw, t, fault) ==
  LET r == Event_update(P, event_id, kw, t)
  IN Guarded(support_only(s), P,
       IF event_id \notin DOMAIN P.events THEN Return("EVENT_NOT_FOUND", P)
       ELSE IF P.events[event_id].support_contact_id # s.user_id
         THEN Fail("ACCESS_DENIED", P)
       ELSE IF r.err # "" THEN Fail(r.err, r.P)
       ELSE Persist(r.P, fault))

EventController_assign_support(P, s, event_id, support_id, t, fault) ==
  LET r == Event_update(P, event_id, [support_contact_id |-> support_id], t)
  IN Guarded(management_only(s), P,
       IF event_id \notin DOMAIN P.events THEN Fail("EVENT_NOT_FOUND", P)
       ELSE IF support_id \notin DOMAIN P.users THEN Fail("CONTACT_NOT_FOUND", P)
       ELSE IF r.err # "" THEN Fail(r.err, r.P)
       ELSE Persist(r.P, fault))

---------------------------------------------------------------------------
(* State and steps.  session is the SessionContext object the caller holds *)
(* (NoSession before any was built); a caller passes it or passes None.    *)
(* last records the latest call: its name, arguments and outcome.          *)

SessArgs == {"none", "session"}

SessionOf(a) == IF a = "none" THEN NoSession ELSE session

Last(op, a, arg, invoked, errs, oks, raised, ret) ==
  [op |-> op, sess |-> a, arg |-> arg, invoked |-> invoked, errs |-> errs, oks |-> oks,
   raised |-> raised, ret |-> ret]

NoCall == Last("", "none", <<>>, FALSE, <<>>, 0, "", "")

(* One controller call with outcome out *)
Step(op, a, arg, out) ==
  /\ db' = IF out.txn = "commit" THEN out.P ELSE db
  /\ pending' = IF out.txn = "rollback" THEN rollback(db, out.P) ELSE out.P
  /\ last' = Last(op, a, arg, out.invoked, out.errs, out.oks, out.raised, "")
  /\ UNCHANGED <<now, session>>

(* One call on the session object, leaving it as s2 and returning ret; the *)
(* object as it was before the call is recorded as the call's argument    *)
SessionStep(op, s2, errs, oks, ret) ==
  /\ session' = s2
  /\ last' = Last(op, "session", session, TRUE, errs, oks, "", ret)
  /\ UNCHANGED <<now, db, pending>>

Bool(b) == IF b THEN "True" ELSE "False"

Tick(d) ==
  /\ now + d <= MaxTime
  /\ now' = now + d
  /\ UNCHANGED <<session, db, pending, last>>

(* LoginController.login; the caller binds its result *)
login(username, password) ==
  LET id == User_get_by_username(pending, username)
  IN IF id = 0 \/ ~verify_password(password, pending.users[id].password_hash)
       THEN SessionStep("login", NoSession, <<"INVALID_CREDENTIALS">>, 0, "None")
       ELSE SessionStep("login",
                        SessionContext(pending.users[id].username, id,
                                       pending.users[id].role, TRUE, now),
                        <<>>, 1, "session")

(* SessionContext(username, user_id, role): is_authenticated defaults to False *)
new_session(id) ==
  /\ id \in DOMAIN pending.users
  /\ SessionStep("new_session",
                 SessionContext(pending.users[id].username, id, pending.users[id].role,
                                FALSE, now),
                 <<>>, 0, "session")

call_is_expired ==
  /\ session.exists
  /\ SessionStep("is_expired", session, <<>>, 0, Bool(is_expired(session, now)))

call_is_valid ==
  /\ session.exists
  /\ SessionStep("is_valid", is_valid(session, now).s, <<>>, 0,
                 Bool(is_valid(session, now).ret))

call_end_session ==
  /\ session.exists
  /\ SessionStep("end_session", end_session(session), <<>>, 0, "None")

create_user(a, d, fault) ==
  LET out == UserController_create_user(pending, SessionOf(a), d, fault)
  IN /\ out.txn = "commit" => db.seq.users < MaxUsers
     /\ Step("create_user", a, d, out)

update_user(a, id, kw, fault) ==
  Step("update_user", a, [id |-> id, kw |-> kw],
       UserController_update_user(pending, SessionOf(a), id, kw, fault))

delete_user(a, id, confirm, failAt, fault) ==
  Step("delete_user", a, [id |-> id, confirm |-> confirm, failAt |-> failAt],
       UserController_delete_user(db, pending, SessionOf(a), id, confirm, failAt, fault))

list_clients(a) ==
  Step("list_clients", a, <<>>, ClientController_list_clients(pending, SessionOf(a)))

create_client(a, d, fault) ==
  LET out == ClientController_create_client(pending, SessionOf(a), d, now, fault)
  IN /\ out.txn = "commit" => db.seq.clients < MaxRows
     /\ Step("create_client", a, d, out)

update_client(a, id, kw, fault) ==
  Step("update_client", a, [id |-> id, kw |-> kw],
       ClientController_update_client(pending, SessionOf(a), id, kw, now, fault))

create_contract(a, d, fault) ==
  LET out == ContractController_create_contract(pending, SessionOf(a), d, now, fault)
  IN /\ out.txn = "commit" => db.seq.contracts < MaxRows
     /\ Step("create_contract", a, d, out)

update_contract(a, id, kw, fault) ==
  Step("update_contract", a, [id |-> id, kw |-> kw],
       ContractController_update_contract(pending, SessionOf(a), id, kw, fault))

create_event(a, d, fault) ==
  LET out == EventController_create_event(pending, SessionOf(a), d, now, fault)
  IN /\ out.txn = "commit" => db.seq.events < MaxRows
     /\ Step("create_event", a, d, out)

update_event(a, id, kw, fault) ==
  Step("update_event", a, [id |-> id, kw |-> kw],
       EventController_update_event(pending, SessionOf(a), id, kw, now, fault))

assign_support(a, id, support_id, fault) ==
  Step("assign_support", a, [id |-> id, support_id |-> support_id],
       EventController_assign_support(pending, SessionOf(a), id, support_id, now, fault))

---------------------------------------------------------------------------
(* A populated store: the bootstrap's manager, one commercial and one      *)
(* support user, a client of the commercial with a contract and an event.  *)

SeedUser(username, role) ==
  [username |-> username, first_name |-> "n", last_name |-> "n", email |-> username,
   role |-> role, password_hash |-> hash_password("pw")]

SeedClient(email, owner) ==
  [first_name |-> "n", last_name |-> "n", email |-> email, commercial_contact_id |-> owner,
   business_name |-> "None", telephone |-> "None", first_contact |-> 0, last_update |-> 0]

SeedContract(client, owner) ==
  [total_price |-> 3, rest_to_pay |-> 2, creation |-> 0, client_id |-> client,
   commercial_contact_id |-> owner, signed |-> TRUE]

SeedEvent(client, support) ==
  [name |-> "ev", notes |-> "None", start_datetime |-> 10, end_datetime |-> 20,
   location |-> "None", attendees |-> 1, client_id |-> client,
   support_contact_id |-> support]

SeedDb ==
  [users |-> <<SeedUser("admin", "management"), SeedUser("com", "commercial"),
               SeedUser("sup", "support")>>,
   clients |-> <<SeedClient("c1", 2)>>,
   contracts |-> <<SeedContract(1, 2)>>,
   events |-> <<SeedEvent(1, 3)>>,
   seq |-> [users |-> 3, clients |-> 1, contracts |-> 1, events |-> 1]]

InitWith(D) ==
  /\ now = 0
  /\ session = NoSession
  /\ db = D
  /\ pending = D
  /\ last = NoCall

---------------------------------------------------------------------------
(* SessionContext alone: logins, the clock and the calls on the object *)

Usernames == {"admin", "com", "sup", "ghost"}
Passwords == {"pw", "bad"}

SessionNext ==
  \/ \E d \in TickSteps : Tick(d)
  \/ \E u \in Usernames, p \in Passwords : login(u, p)
  \/ \E id \in 1..3 : new_session(id)
  \/ call_is_expired
  \/ call_is_valid
  \/ call_end_session

SpecSession == InitWith(SeedDb) /\ [][SessionNext]_vars

---------------------------------------------------------------------------
(* Claims on SessionContext, under SpecSession *)

NewInstanceStep ==
  \/ \E u \in Usernames, p \in Passwords : login(u, p)
  \/ \E id \in 1..3 : new_session(id)

(* C3: is_valid() on an authenticated session older than SESSION_TIMEOUT    *)
(* returns False and clears is_authenticated in that same call, and a second *)
(* is_valid() on the object returns False again.                            *)
C3_ExpiredSessionInvalid ==
  [][(/\ call_is_valid
      /\ session.is_authenticated
      /\ now - session.created_at > SESSION_TIMEOUT)
     => (/\ last'.ret = "False"
         /\ ~session'.is_authenticated
         /\ ~is_valid(session', now').ret
         /\ is_valid(session', now').s = session')]_vars

C3_Witness ==
  /\ last.op = "is_valid"
  /\ last.arg.is_authenticated
  /\ last.ret = "False"
  /\ ~session.is_authenticated

(* C4: once is_authenticated is False on a SessionContext object, no call of *)
(* is_expired, is_valid or end_session at any later time makes it True again *)
(* or makes is_valid() return True.                                         *)
C4_NoResurrection ==
  [][(/\ session.exists
      /\ ~session.is_authenticated
      /\ ~NewInstanceStep)
     => (/\ ~session'.is_authenticated
         /\ ~is_valid(session', now').ret
         /\ (call_is_valid => last'.ret = "False"))]_vars

C4_Witness ==
  /\ last.op = "is_valid"
  /\ last.arg.exists
  /\ ~last.arg.is_authenticated
  /\ now - last.arg.created_at <= SESSION_TIMEOUT
  /\ last.ret = "False"
  /\ ~session.is_authenticated

---------------------------------------------------------------------------
(* The controllers, called with a session argument and the view's answers  *)
(* drawn from the sets of In.                                              *)

(* UserView.prompt_user_creation as views.py has it: no password is asked *)
UserView_prompt_user_creation(username, email, role) ==
  [username |-> username, first_name |-> "n", last_name |-> "n", email |-> email,
   role |-> role]

(* The answers of the views the controllers are written against *)
NewUser(username, email, role) ==
  [username |-> username, first_name |-> "n", last_name |-> "n", email |-> email,
   role |-> role, password |-> "pw"]

NewClient(email) ==
  [first_name |-> "n", last_name |-> "n", email |-> email, business_name |-> "None",
   telephone |-> "None"]

NewContract(total_price, rest_to_pay, client_id, commercial_contact_id) ==
  [total_price |-> total_price, rest_to_pay |-> rest_to_pay, client_id |-> client_id,
   commercial_contact_id |-> commercial_contact_id, signed |-> FALSE]

NewEvent(start_datetime, end_datetime, client_id) ==
  [name |-> "ev2", notes |-> "None", start_datetime |-> start_datetime,
   end_datetime |-> end_datetime, location |-> "None", attendees |-> 1,
   client_id |-> client_id]

Call_create_user(In) ==
  \E a \in In.sess, d \in In.user_data, f \in In.faults : create_user(a, d, f)

Call_update_user(In) ==
  \E a \in In.sess, id \in In.user_ids, kw \in In.user_kw, f \in In.faults :
    update_user(a, id, kw, f)

Call_delete_user(In) ==
  \E a \in In.sess, id \in In.user_ids, c \in In.confirms, k \in In.failAts,
     f \in In.faults : delete_user(a, id, c, k, f)

Call_list_clients(In) == \E a \in In.sess : list_clients(a)

Call_create_client(In) ==
  \E a \in In.sess, d \in In.client_data, f \in In.faults : create_client(a, d, f)

Call_update_client(In) ==
  \E a \in In.sess, id \in In.client_ids, kw \in In.client_kw, f \in In.faults :
    update_client(a, id, kw, f)

Call_create_contract(In) ==
  \E a \in In.sess, d \in In.contract_data, f \in In.faults : create_contract(a, d, f)

Call_update_contract(In) ==
  \E a \in In.sess, id \in In.contract_ids, kw \in In.contract_kw, f \in In.faults :
    update_contract(a, id, kw, f)

Call_create_event(In) ==
  \E a \in In.sess, d \in In.event_data, f \in In.faults : create_event(a, d, f)

Call_update_event(In) ==
  \E a \in In.sess, id \in In.event_ids, kw \in In.event_kw, f \in In.faults :
    update_event(a, id, kw, f)

Call_assign_support(In) ==
  \E a \in In.sess, id \in In.event_ids, u \in In.support_ids, f \in In.faults :
    assign_support(a, id, u, f)

ControllerOps ==
  {"create_user", "update_user", "delete_user", "list_clients", "create_client",
   "update_client", "create_contract", "update_contract", "create_event", "update_event",
   "assign_support"}

(* The roles each controller's decorator lets through *)
AllowedRoles(op) ==
  CASE op \in {"create_user", "update_user", "delete_user", "create_contract",
               "assign_support"} -> {"management"}
    [] op \in {"create_client", "update_client", "create_event"} -> {"commercial"}
    [] op = "update_event" -> {"support"}
    [] op = "update_contract" -> {"management", "commercial"}
    [] OTHER -> Roles

(* A step that is one controller call *)
ControllerCall ==
  /\ last'.op \in ControllerOps
  /\ now' = now
  /\ session' = session

---------------------------------------------------------------------------
(* The gates in front of the controllers: sessions in every condition      *)
(* (absent, never authenticated, ended, expired, of each role) calling a   *)
(* controller behind each of the five decorators, with one answer of the   *)
(* view each.                                                              *)

GateInputs ==
  [sess |-> SessArgs, faults |-> {FALSE},
   user_ids |-> {3}, user_kw |-> {[email |-> "sup2"]},
   client_ids |-> {1}, client_kw |-> {[business_name |-> "b"]},
   contract_ids |-> {1}, contract_kw |-> {[rest_to_pay |-> 1]},
   event_data |-> {NewEvent(25, 30, 1)},
   event_ids |-> {1}, event_kw |-> {[attendees |-> 2]},
   support_ids |-> {1}]

Next ==
  \/ Tick(20)
  \/ \E u \in Usernames : login(u, "pw")
  \/ \E id \in 1..3 : new_session(id)
  \/ call_end_session
  \/ Call_list_clients(GateInputs)
  \/ Call_update_user(GateInputs)
  \/ Call_update_client(GateInputs)
  \/ Call_update_contract(GateInputs)
  \/ Call_create_event(GateInputs)
  \/ Call_update_event(GateInputs)
  \/ Call_assign_support(GateInputs)

Spec == InitWith(SeedDb) /\ [][Next]_vars

---------------------------------------------------------------------------
(* Claims on the gates, under Spec *)

(* The session a controller call of this step was given *)
Caller == SessionOf(last'.sess)

(* C1: behind each of the five gates, a call whose session is missing, has  *)
(* is_authenticated = False or has a role outside the gate's allowed set    *)
(* does not enter the wrapped controller and leaves the store unchanged.    *)
C1_GateDenies ==
  [][(/\ ControllerCall
      /\ \/ ~Caller.exists
         \/ ~Caller.is_authenticated
         \/ Caller.role \notin AllowedRoles(last'.op))
     => (/\ ~last'.invoked
         /\ db' = db
         /\ pending' = pending)]_vars

(* C2: a call whose session is older than SESSION_TIMEOUT does not enter the *)
(* wrapped controller and leaves the store unchanged, whether or not        *)
(* is_valid() has already cleared is_authenticated.                         *)
C2_ExpiredDenied ==
  [][(/\ ControllerCall
      /\ Caller.exists
      /\ now - Caller.created_at > SESSION_TIMEOUT)
     => (/\ ~last'.invoked
         /\ db' = db
         /\ pending' = pending)]_vars

(* C19: when role_permission denies a session whose role is outside the     *)
(* allowed set (contract update), the wrapped controller is not invoked and *)
(* the call returns None: no exception leaves the gate.                     *)
C19_RoleDenialReturnsNone ==
  [][(/\ ControllerCall
      /\ last'.op = "update_contract"
      /\ Caller.exists
      /\ Caller.role \notin AllowedRoles("update_contract"))
     => (/\ ~last'.invoked
         /\ last'.raised = ""
         /\ last'.ret = "None")]_vars

---------------------------------------------------------------------------
(* Users and clients: a manager creating, updating and deleting users and  *)
(* a commercial creating and updating clients, with names and emails that  *)
(* collide with the stored ones and names that do not.                     *)

UserInputs ==
  [sess |-> {"session"}, faults |-> {FALSE},
   user_data |-> {NewUser(u, e, "commercial") : u \in {"sup", "u4"}, e \in {"sup", "e4"}},
   user_ids |-> {3, 4},
   user_kw |-> {[username |-> "sup"], [username |-> "u4"], [email |-> "sup"],
                [email |-> "e4"], [username |-> "com", email |-> "e5"]},
   confirms |-> {TRUE}, failAts |-> {0},
   client_data |-> {NewClient("c1"), NewClient("c2")},
   client_ids |-> {1, 2},
   client_kw |-> {[email |-> "c1"], [email |-> "c2"], [email |-> "c3"]}]

UsersNext ==
  \/ \E u \in {"admin", "com"} : login(u, "pw")
  \/ Call_create_user(UserInputs)
  \/ Call_update_user(UserInputs)
  \/ Call_delete_user(UserInputs)
  \/ Call_create_client(UserInputs)
  \/ Call_update_client(UserInputs)

SpecUsers == InitWith(SeedDb) /\ [][UsersNext]_vars

---------------------------------------------------------------------------
(* Claims on uniqueness, under SpecUsers *)

UniqueOn(f, key) == \A i, j \in DOMAIN f : f[i][key] = f[j][key] => i = j

RowsWith(f, key, value) == {i \in DOMAIN f : f[i][key] = value}

(* C5: no two stored users share a username, no two stored users share an   *)
(* email and no two stored clients share an email, in every reachable state; *)
(* a user creation whose username is already stored reports USERNAME_TAKEN   *)
(* and the store still holds exactly one row with that username.            *)
C5_Uniqueness ==
  /\ [](/\ UniqueOn(db.users, "username")
        /\ UniqueOn(db.users, "email")
        /\ UniqueOn(db.clients, "email"))
  /\ [][(/\ ControllerCall
         /\ last'.op = "create_user"
         /\ last'.invoked
         /\ RowsWith(db.users, "username", last'.arg.username) # {})
        => (/\ last'.errs = <<"USERNAME_TAKEN">>
            /\ Cardinality(RowsWith(db'.users, "username", last'.arg.username)) = 1)]_vars

C5_Witness ==
  /\ last.op = "create_user"
  /\ last.invoked
  /\ last.errs = <<"USERNAME_TAKEN">>
  /\ Cardinality(RowsWith(db.users, "username", last.arg.username)) = 1
  /\ Cardinality(DOMAIN db.users) = 4
  /\ Cardinality(DOMAIN db.clients) = 2

---------------------------------------------------------------------------
(* Contracts: a manager creating and updating contracts with every pair of *)
(* prices up to MaxPrice, the invalid ones included.                       *)

Prices == 0..MaxPrice

ContractInputs ==
  [sess |-> {"session"}, faults |-> {FALSE},
   contract_data |-> {NewContract(tp, rp, 1, 2) : tp \in Prices, rp \in -1..MaxPrice},
   contract_ids |-> {1, 2},
   contract_kw |-> {[total_price |-> tp] : tp \in Prices}
                   \cup {[rest_to_pay |-> rp] : rp \in -1..MaxPrice}
                   \cup {[total_price |-> tp, rest_to_pay |-> rp] :
                           tp \in Prices, rp \in Prices}]

ContractsNext ==
  \/ login("admin", "pw")
  \/ Call_create_contract(ContractInputs)
  \/ Call_update_contract(ContractInputs)

SpecContracts == InitWith(SeedDb) /\ [][ContractsNext]_vars

---------------------------------------------------------------------------
(* Claims on the contract prices, under SpecContracts *)

(* C6: every stored contract has total_price > 0 and                        *)
(* 0 <= rest_to_pay <= total_price, in every state reached by contract      *)
(* creations and updates.                                                   *)
C6_ContractInvariant ==
  \A c \in DOMAIN db.contracts :
    /\ db.contracts[c].total_price > 0
    /\ 0 <= db.contracts[c].rest_to_pay
    /\ db.contracts[c].rest_to_pay <= db.contracts[c].total_price

(* The prices a contract call asks for: those given, else those stored *)
AskedTotal ==
  IF last'.op = "create_contract" THEN last'.arg.total_price
  ELSE IF Given(last'.arg.kw, "total_price") THEN last'.arg.kw.total_price
  ELSE db.contracts[last'.arg.id].total_price

AskedRest ==
  IF last'.op = "create_contract" THEN last'.arg.rest_to_pay
  ELSE IF Given(last'.arg.kw, "rest_to_pay") THEN last'.arg.kw.rest_to_pay
  ELSE db.contracts[last'.arg.id].rest_to_pay

(* C7: a contract creation or update whose outcome would have               *)
(* rest_to_pay > total_price, an update giving only a total_price below the *)
(* stored rest_to_pay included, reports INFERIOR_TOTAL_PRICE and leaves the *)
(* stored contracts as they were.                                           *)
C7_InferiorTotalPrice ==
  [][(/\ ControllerCall
      /\ last'.op \in {"create_contract", "update_contract"}
      /\ last'.invoked
      /\ last'.op = "update_contract" => last'.arg.id \in DOMAIN db.contracts
      /\ AskedTotal > 0
      /\ AskedRest > AskedTotal)
     => (/\ last'.errs = <<"INFERIOR_TOTAL_PRICE">>
         /\ db'.contracts = db.contracts)]_vars

---------------------------------------------------------------------------
(* Deleting users: a team of two commercials and one support, each client, *)
(* contract and event reassigned among them, and a manager deleting users  *)
(* with the dissociation failing at any of its three loops or at none.     *)

SeedTeam ==
  [users |-> <<SeedUser("admin", "management"), SeedUser("com", "commercial"),
               SeedUser("sup", "support"), SeedUser("com2", "commercial")>>,
   clients |-> <<SeedClient("c1", 2), SeedClient("c2", 4)>>,
   contracts |-> <<SeedContract(1, 2), SeedContract(2, 4)>>,
   events |-> <<SeedEvent(1, 3), SeedEvent(2, 3)>>,
   seq |-> [users |-> 4, clients |-> 2, contracts |-> 2, events |-> 2]]

DeleteInputs ==
  [sess |-> {"session"}, faults |-> {FALSE},
   user_ids |-> {2, 3, 4}, confirms |-> BOOLEAN, failAts |-> 0..3,
   contract_ids |-> {1, 2},
   contract_kw |-> {[commercial_contact_id |-> 2], [commercial_contact_id |-> 4]},
   event_ids |-> {1, 2}, support_ids |-> {2, 3}]

DeleteNext ==
  \/ login("admin", "pw")
  \/ Call_delete_user(DeleteInputs)
  \/ Call_update_contract(DeleteInputs)
  \/ Call_assign_support(DeleteInputs)

SpecDelete == InitWith(SeedTeam) /\ [][DeleteNext]_vars

---------------------------------------------------------------------------
(* Claims on delete_user, under SpecDelete *)

(* A step that is delete_user, confirmed, on a stored user *)
DeleteCall ==
  /\ ControllerCall
  /\ last'.op = "delete_user"
  /\ last'.invoked
  /\ last'.arg.confirm
  /\ last'.arg.id \in DOMAIN db.users

(* g is f with the key of exactly the rows that point to id set to null *)
NullifiedOnly(f, g, key, id) ==
  /\ DOMAIN g = DOMAIN f
  /\ \A i \in DOMAIN f :
       g[i] = IF f[i][key] = id THEN [f[i] EXCEPT ![key] = 0] ELSE f[i]

Changed(f, g) == {i \in DOMAIN f : i \notin DOMAIN g \/ g[i] # f[i]}

(* C8: delete_user on a user owning N clients and M contracts and assigned  *)
(* K events sets exactly those N+M+K foreign keys to null and removes       *)
(* exactly the user's row; no other row is removed and no other field or    *)
(* foreign key changes.                                                     *)
C8_DeleteFrame ==
  [][(DeleteCall /\ last'.arg.failAt = 0)
     => LET id == last'.arg.id
            N == Cardinality(RowsWith(db.clients, "commercial_contact_id", id))
            M == Cardinality(RowsWith(db.contracts, "commercial_contact_id", id))
            K == Cardinality(RowsWith(db.events, "support_contact_id", id))
        IN /\ last'.errs = <<>>
           /\ DOMAIN db'.users = DOMAIN db.users \ {id}
           /\ \A u \in DOMAIN db'.users : db'.users[u] = db.users[u]
           /\ NullifiedOnly(db.clients, db'.clients, "commercial_contact_id", id)
           /\ NullifiedOnly(db.contracts, db'.contracts, "commercial_contact_id", id)
           /\ NullifiedOnly(db.events, db'.events, "support_contact_id", id)
           /\ Cardinality(Changed(db.clients, db'.clients))
                + Cardinality(Changed(db.contracts, db'.contracts))
                + Cardinality(Changed(db.events, db'.events)) = N + M + K]_vars

C8_Witness ==
  /\ last.op = "delete_user"
  /\ last.invoked
  /\ last.arg.confirm
  /\ last.oks = 1
  /\ last.arg.id \notin DOMAIN db.users
  /\ Cardinality(DOMAIN db.users) = 3
  /\ RowsWith(db.clients, "commercial_contact_id", 0) # {}
  /\ RowsWith(db.contracts, "commercial_contact_id", 0) # {}
  /\ RowsWith(db.events, "support_contact_id", 0) # {}
  /\ RowsWith(db.clients, "commercial_contact_id", 0) # DOMAIN db.clients
  /\ RowsWith(db.events, "support_contact_id", 0) # DOMAIN db.events

(* C9: when a step of the dissociation fails, delete_user reports           *)
(* DELETE_FAILED, the user's row is still stored and every client, contract *)
(* and event keeps the foreign key it had before the call, in the committed *)
(* store and in the database session alike.                                 *)
C9_DeleteAtomic ==
  [][(DeleteCall /\ last'.arg.failAt # 0)
     => (/\ last'.errs = <<"DELETE_FAILED">>
         /\ last'.arg.id \in DOMAIN db'.users
         /\ db' = db
         /\ pending' = pending)]_vars

C9_Witness ==
  /\ last.op = "delete_user"
  /\ last.invoked
  /\ last.arg.confirm
  /\ last.arg.failAt = 3
  /\ last.errs = <<"DELETE_FAILED">>
  /\ last.arg.id \in DOMAIN db.users
  /\ RowsWith(db.clients, "commercial_contact_id", last.arg.id) # {}
  /\ RowsWith(db.contracts, "commercial_contact_id", last.arg.id) # {}
  /\ RowsWith(pending.clients, "commercial_contact_id", last.arg.id) # {}

---------------------------------------------------------------------------
(* Every controller on one database session: users of the three roles log  *)
(* in and call the eleven controllers with answers that pass validation    *)
(* and answers that fail it before, between and after the assignments, and *)
(* the commit itself may raise.                                            *)

AllInputs ==
  [sess |-> {"session"}, faults |-> BOOLEAN,
   user_data |-> {NewUser("u4", "u4", "support"), NewUser("admin", "u4", "support"),
                  UserView_prompt_user_creation("u5", "u5", "support")},
   user_ids |-> {4, 9},
   user_kw |-> {[first_name |-> "m"], [first_name |-> "m", email |-> "admin"]},
   confirms |-> {TRUE}, failAts |-> {0, 2},
   client_data |-> {NewClient("c2"), NewClient("c1")},
   client_ids |-> {1, 9},
   client_kw |-> {[telephone |-> "06"], [telephone |-> "06", email |-> "c2"]},
   contract_data |-> {NewContract(2, 1, 1, 2), NewContract(1, 2, 1, 2)},
   contract_ids |-> {1, 9},
   contract_kw |-> {[rest_to_pay |-> 0], [total_price |-> 2, rest_to_pay |-> 3]},
   event_data |-> {NewEvent(25, 30, 1)},
   event_ids |-> {1, 9},
   event_kw |-> {[attendees |-> 2], [attendees |-> 3, end_datetime |-> 5]},
   support_ids |-> {3, 9}]

ControllersNext ==
  \/ \E u \in {"admin", "com", "sup"} : login(u, "pw")
  \/ Call_create_user(AllInputs)
  \/ Call_update_user(AllInputs)
  \/ Call_delete_user(AllInputs)
  \/ Call_list_clients(AllInputs)
  \/ Call_create_client(AllInputs)
  \/ Call_update_client(AllInputs)
  \/ Call_create_contract(AllInputs)
  \/ Call_update_contract(AllInputs)
  \/ Call_create_event(AllInputs)
  \/ Call_update_event(AllInputs)
  \/ Call_assign_support(AllInputs)

SpecControllers == InitWith(SeedDb) /\ [][ControllersNext]_vars

---------------------------------------------------------------------------
(* Claims on the transactions, under SpecControllers *)

(* The call of this step displayed an error or left by an exception *)
ErrorOutcome == last'.errs # <<>> \/ last'.raised # ""

(* C10: a controller call that ends with an error leaves the committed      *)
(* store as it was before the call, and no controller call leaves a write   *)
(* pending in the database session, so that a later commit persists only    *)
(* the changes of its own call.                                             *)
C10_ErrorLeavesStore ==
  /\ [](pending = db)
  /\ [][(ControllerCall /\ ErrorOutcome) => (db' = db /\ pending' = db)]_vars

C10_Witness ==
  /\ last.op = "update_contract"
  /\ last.invoked
  /\ last.errs = <<"INFERIOR_TOTAL_PRICE">>
  /\ Given(last.arg.kw, "total_price")
  /\ db.contracts[last.arg.id].total_price # last.arg.kw.total_price
  /\ pending = db
  /\ db # SeedDb

(* C23: in every controller operation a validation failure is rolled back,  *)
(* displayed exactly once and not re-raised; any other exception is rolled  *)
(* back, displayed exactly once as DATABASE_ERROR and re-raised; a failed    *)
(* invocation produces exactly one error message and none reports both a    *)
(* success and an error.                                                    *)
C23_OneErrorPerFailure ==
  [][ControllerCall
     => (/\ ErrorOutcome => (/\ Len(last'.errs) = 1
                             /\ last'.oks = 0
                             /\ db' = db
                             /\ pending' = db)
         /\ last'.raised # "" => last'.errs = <<"DATABASE_ERROR">>
         /\ (last'.raised = "" /\ last'.errs # <<>>)
              => last'.errs[1] # "DATABASE_ERROR")]_vars

---------------------------------------------------------------------------
(* utils.py: the message table, and what display_error shows for a key *)

ErrorMessages ==
  [USERNAME_TAKEN |-> "This username is already taken.",
   EMAIL_TAKEN |-> "This email is already registered.",
   REQUIRED_FIELDS_EMPTY |-> "Required fields cannot be empty or whitespace.",
   INVALID_ROLE |-> "Invalid role. Must be one of: commercial, management, support.",
   DELETE_FAILED |-> "Failed to delete user. Dependencies may be locked.",
   DATABASE_ERROR |-> "A technical error occurred. Please try again later.",
   CONTACT_NOT_FOUND |-> "The contact mentioned does not exist.",
   INFERIOR_TOTAL_PRICE |-> "Total price can't be inferior to rest to pay.",
   INVALID_TOTAL_PRICE |-> "Total_price can't be <= 0.",
   NEGATIVE_REST_TO_PAY |-> "Rest to pay can't be < 0.",
   CLIENT_NOT_FOUND |-> "The specified client does not exist.",
   CONTRACT_NOT_FOUND |-> "The specified contract does not exist.",
   EVENT_DATE_IN_PAST |-> "Event date must be in the future.",
   END_BEFORE_START |-> "End date must be after start date.",
   INVALID_CREDENTIALS |->
     "The credentials you have selected are not recognized. Please try again."]

get_message(error_key) ==
  IF error_key \in DOMAIN ErrorMessages THEN ErrorMessages[error_key]
  ELSE ErrorMessages["DATABASE_ERROR"]

(* DisplayMessages.display_error(message_key): the line it prints *)
display_error(message_key) == get_message(message_key)

(* C26: every kind a controller or gate reports is in the message table and *)
(* is displayed with its own text; only DATABASE_ERROR shows the            *)
(* DATABASE_ERROR text.                                                     *)
C26_OwnMessage ==
  [][ControllerCall
     => \A i \in DOMAIN last'.errs :
          /\ last'.errs[i] \in DOMAIN ErrorMessages
          /\ display_error(last'.errs[i]) = ErrorMessages["DATABASE_ERROR"]
               => last'.errs[i] = "DATABASE_ERROR"]_vars

---------------------------------------------------------------------------
(* Ownership: two commercials, a support and a manager, logged in or       *)
(* holding a session never authenticated, updating each client, contract   *)
(* and event, their own and the others'; contracts move between clients    *)
(* and events between support contacts.                                    *)

OwnerInputs ==
  [sess |-> {"session"}, faults |-> {FALSE},
   client_ids |-> {1}, client_kw |-> {[business_name |-> "b"]},
   contract_ids |-> {1, 2}, contract_kw |-> {[rest_to_pay |-> 1], [client_id |-> 2]},
   event_ids |-> {1}, event_kw |-> {[attendees |-> 2]},
   support_ids |-> {2, 3}]

OwnerNext ==
  \/ \E u \in {"admin", "com", "com2", "sup"} : login(u, "pw")
  \/ \E id \in {2, 3} : new_session(id)
  \/ Call_update_client(OwnerInputs)
  \/ Call_update_contract(OwnerInputs)
  \/ Call_update_event(OwnerInputs)
  \/ Call_assign_support(OwnerInputs)

SpecOwner == InitWith(SeedTeam) /\ [][OwnerNext]_vars

---------------------------------------------------------------------------
(* Claims on ownership, under SpecOwner *)

(* The resource an update call of this step names is stored *)
ResourceExists ==
  CASE last'.op = "update_client" -> last'.arg.id \in DOMAIN db.clients
    [] last'.op = "update_contract" ->
         /\ last'.arg.id \in DOMAIN db.contracts
         /\ db.contracts[last'.arg.id].client_id \in DOMAIN db.clients
    [] last'.op = "update_event" -> last'.arg.id \in DOMAIN db.events
    [] OTHER -> FALSE

(* Its owning foreign key *)
ResourceOwner ==
  CASE last'.op = "update_client" -> db.clients[last'.arg.id].commercial_contact_id
    [] last'.op = "update_contract" ->
         db.clients[db.contracts[last'.arg.id].client_id].commercial_contact_id
    [] last'.op = "update_event" -> db.events[last'.arg.id].support_contact_id

(* C11: update_client and update_contract called with a commercial session, *)
(* and update_event called with a support session, whose user_id is not the *)
(* resource's owning foreign key, report ACCESS_DENIED and leave the store  *)
(* and the resource unchanged.                                              *)
C11_OwnershipDenied ==
  [][(/\ ControllerCall
      /\ last'.op \in {"update_client", "update_contract", "update_event"}
      /\ Caller.exists
      /\ Caller.role = (IF last'.op = "update_event" THEN "support" ELSE "commercial")
      /\ ResourceExists
      /\ ResourceOwner # Caller.user_id)
     => (/\ last'.errs = <<"ACCESS_DENIED">>
         /\ last'.oks = 0
         /\ db' = db
         /\ pending' = pending)]_vars

C11_Witness ==
  /\ last.op = "update_contract"
  /\ last.invoked
  /\ last.errs = <<"ACCESS_DENIED">>
  /\ session.role = "commercial"
  /\ session.is_authenticated
  /\ db.contracts[last.arg.id].commercial_contact_id = session.user_id
  /\ db.clients[db.contracts[last.arg.id].client_id].commercial_contact_id # session.user_id
  /\ pending = db

(* C12: update_client and update_contract called with an authenticated      *)
(* management session on a stored client or contract enter the controller   *)
(* and are not rejected with ACCESS_DENIED, whoever owns the resource.      *)
C12_ManagementBypass ==
  [][(/\ ControllerCall
      /\ last'.op \in {"update_client", "update_contract"}
      /\ Caller.exists
      /\ Caller.is_authenticated
      /\ Caller.role = "management"
      /\ ResourceExists)
     => (/\ last'.invoked
         /\ last'.errs # <<"ACCESS_DENIED">>)]_vars

---------------------------------------------------------------------------
(* Events through the model layer: Event.create and Event.update called    *)
(* directly, the caller persisting the result (db.add, db.commit) and      *)
(* rolling back when the call raises.  The clock advances, so that dates   *)
(* fall in the past.                                                       *)

(* One call of a model method: err is the key of the ValueError it raises, *)
(* exc the exception that leaves it, P the Session's objects after it      *)
ModelStep(op, arg, err, exception, P) ==
  /\ db' = IF exception = "" THEN P ELSE db
  /\ pending' = IF exception = "" THEN P ELSE rollback(db, P)
  /\ last' = Last(op, "none", arg, TRUE, IF err = "" THEN <<>> ELSE <<err>>, 0, exception, "")
  /\ UNCHANGED <<now, session>>

(* Event.create(db, **d); support_contact_id is a required argument *)
Event_create_call(d) ==
  IF ~Given(d, "support_contact_id")
    THEN ModelStep("Event_create", d, "", "TypeError", pending)
  ELSE LET r == Event_create(pending, d, d.support_contact_id, now)
       IN IF r.err # "" THEN ModelStep("Event_create", d, r.err, "ValueError", pending)
          ELSE /\ db.seq.events < MaxRows
               /\ ModelStep("Event_create", d, "", "", db_add(pending, "events", r.obj))

(* event.update(db, **kw) *)
Event_update_call(id, kw) ==
  /\ id \in DOMAIN pending.events
  /\ LET r == Event_update(pending, id, kw, now)
     IN ModelStep("Event_update", [id |-> id, kw |-> kw], r.err,
                  IF r.err = "" THEN "" ELSE "ValueError", r.P)

EventTimes == {5, 25}

EventArgs ==
  {NewEvent(s, e, 1) : s \in EventTimes, e \in EventTimes}
  \cup {[support_contact_id |-> u] @@ NewEvent(s, e, c) :
          s \in EventTimes, e \in EventTimes, c \in {1, 9}, u \in {3, 9}}

EventKw ==
  {[start_datetime |-> s] : s \in EventTimes}
  \cup {[end_datetime |-> e] : e \in EventTimes}
  \cup {[start_datetime |-> s, end_datetime |-> e] : s \in EventTimes, e \in EventTimes}

EventsNext ==
  \/ Tick(10)
  \/ \E d \in EventArgs : Event_create_call(d)
  \/ \E kw \in EventKw : Event_update_call(1, kw)

SpecEvents == InitWith(SeedDb) /\ [][EventsNext]_vars

---------------------------------------------------------------------------
(* Claims on the event dates, under SpecEvents *)

(* C13: every stored event has end_datetime >= start_datetime, in every     *)
(* state reached by Event.create and Event.update calls, an update giving   *)
(* only one of the two dates being compared with the stored other one.      *)
C13_EventOrder ==
  \A e \in DOMAIN db.events : db.events[e].end_datetime >= db.events[e].start_datetime

(* A step that is a call of Event.create *)
EventCreateCall ==
  /\ last'.op = "Event_create"
  /\ now' = now
  /\ session' = session

(* C14: Event.create with an existing client raises EVENT_DATE_IN_PAST when *)
(* start_datetime < now, and END_BEFORE_START when start_datetime >= now    *)
(* and end_datetime < start_datetime; in both cases no event is created.    *)
C14_EventCreateDates ==
  [][(/\ EventCreateCall
      /\ last'.arg.client_id \in DOMAIN db.clients
      /\ \/ last'.arg.start_datetime < now
         \/ last'.arg.end_datetime < last'.arg.start_datetime)
     => (/\ last'.errs = IF last'.arg.start_datetime < now
                           THEN <<"EVENT_DATE_IN_PAST">> ELSE <<"END_BEFORE_START">>
         /\ db' = db
         /\ pending' = pending)]_vars

---------------------------------------------------------------------------
(* Events and signatures: the client's contract signed and unsigned by      *)
(* Contract.update, and Event.create called for that client in between.     *)

(* contract.update(db, **kw) *)
Contract_update_call(id, kw) ==
  /\ id \in DOMAIN pending.contracts
  /\ LET r == Contract_update(pending, id, kw)
     IN ModelStep("Contract_update", [id |-> id, kw |-> kw], r.err,
                  IF r.err = "" THEN "" ELSE "ValueError", r.P)

SignedKw == {[signed |-> b] : b \in BOOLEAN}

SignedNext ==
  \/ Tick(10)
  \/ \E kw \in SignedKw : Contract_update_call(1, kw)
  \/ \E d \in EventArgs : Event_create_call(d)

SpecSigned == InitWith(SeedDb) /\ [][SignedNext]_vars

(* The client has a signed contract *)
HasSignedContract(D, client_id) ==
  \E c \in DOMAIN D.contracts :
    D.contracts[c].client_id = client_id /\ D.contracts[c].signed

(* C22: Event.create for a client whose contract is not signed raises       *)
(* CONTRACT_NOT_SIGNED and creates no event (the call being valid in        *)
(* everything else), so an event is only ever created for a client that has *)
(* a signed contract.                                                       *)
C22_ContractNotSigned ==
  [][(/\ EventCreateCall
      /\ last'.arg.client_id \in DOMAIN db.clients
      /\ ~HasSignedContract(db, last'.arg.client_id)
      /\ Given(last'.arg, "support_contact_id")
      /\ last'.arg.support_contact_id \in DOMAIN db.users
      /\ last'.arg.start_datetime >= now
      /\ last'.arg.end_datetime >= last'.arg.start_datetime)
     => (/\ last'.errs = <<"CONTRACT_NOT_SIGNED">>
         /\ db' = db
         /\ pending' = pending)]_vars

---------------------------------------------------------------------------
(* References: clients, contracts and events created and updated with      *)
(* foreign keys of stored and of unknown rows, and users deleted.          *)

RefInputs ==
  [sess |-> {"session"}, faults |-> {FALSE},
   user_ids |-> {2, 3}, confirms |-> {TRUE}, failAts |-> {0},
   client_data |-> {NewClient("c2")},
   client_ids |-> {1},
   client_kw |-> {[commercial_contact_id |-> 3], [commercial_contact_id |-> 9]},
   contract_data |-> {NewContract(2, 1, 1, 2), NewContract(2, 1, 9, 2),
                      NewContract(2, 1, 1, 9)},
   contract_ids |-> {1},
   contract_kw |-> {[client_id |-> 9], [commercial_contact_id |-> 9],
                    [commercial_contact_id |-> 3]},
   event_ids |-> {1},
   event_kw |-> {[support_contact_id |-> 9], [client_id |-> 9], [attendees |-> 2]},
   support_ids |-> {2, 9}]

RefNext ==
  \/ \E u \in {"admin", "com", "sup"} : login(u, "pw")
  \/ Call_delete_user(RefInputs)
  \/ Call_create_client(RefInputs)
  \/ Call_update_client(RefInputs)
  \/ Call_create_contract(RefInputs)
  \/ Call_update_contract(RefInputs)
  \/ Call_update_event(RefInputs)
  \/ Call_assign_support(RefInputs)

SpecRefs == InitWith(SeedDb) /\ [][RefNext]_vars

---------------------------------------------------------------------------
(* Claims on the foreign keys, under SpecRefs *)

(* C15: every non-null commercial_contact_id and support_contact_id is the  *)
(* id of a stored user and every non-null client_id the id of a stored      *)
(* client, in every state reached by creations, updates and user deletions. *)
C15_ReferencesExist ==
  /\ \A c \in DOMAIN db.clients :
       db.clients[c].commercial_contact_id \in DOMAIN db.users \cup {0}
  /\ \A c \in DOMAIN db.contracts :
       /\ db.contracts[c].commercial_contact_id \in DOMAIN db.users \cup {0}
       /\ db.contracts[c].client_id \in DOMAIN db.clients \cup {0}
  /\ \A e \in DOMAIN db.events :
       /\ db.events[e].support_contact_id \in DOMAIN db.users \cup {0}
       /\ db.events[e].client_id \in DOMAIN db.clients \cup {0}

---------------------------------------------------------------------------
(* The users, from an empty store: the bootstrap, then sessions of every   *)
(* role, or none, calling the user controllers and the client controllers. *)

EmptyDb ==
  [users |-> <<>>, clients |-> <<>>, contracts |-> <<>>, events |-> <<>>,
   seq |-> [users |-> 0, clients |-> 0, contracts |-> 0, events |-> 0]]

(* create_admin.py: it runs on a database session of its own and commits *)
create_first_manager(username, email, password) ==
  LET r == User_create(pending, [username |-> username, first_name |-> "System",
                                 last_name |-> "Administrator", email |-> email,
                                 role |-> "management",
                                 password_hash |-> hash_password(password)])
      P == db_add(pending, "users", r.obj)
      refused == DOMAIN pending.users # {}
      created == ~refused /\ r.err = ""
  IN /\ db' = IF created THEN P ELSE db
     /\ pending' = IF created THEN P ELSE pending
     /\ last' = Last("create_first_manager", "none",
                     [username |-> username, email |-> email], ~refused,
                     IF refused \/ created THEN <<>> ELSE <<r.err>>,
                     IF created THEN 1 ELSE 0, IF refused THEN "SystemExit" ELSE "", "")
     /\ UNCHANGED <<now, session>>

AdminInputs ==
  [sess |-> SessArgs, faults |-> {FALSE},
   user_data |-> {NewUser("com", "com", "commercial"), NewUser("sup", "sup", "support")},
   user_ids |-> {1, 2},
   user_kw |-> {[role |-> "support"], [first_name |-> "m"]},
   confirms |-> {TRUE}, failAts |-> {0},
   client_data |-> {NewClient("c1")},
   client_ids |-> {1}, client_kw |-> {[business_name |-> "b"]}]

AdminNext ==
  \/ \E e \in {"admin", ""} : create_first_manager("admin", e, "pw")
  \/ \E u \in {"admin", "com", "sup"} : login(u, "pw")
  \/ call_end_session
  \/ Call_create_user(AdminInputs)
  \/ Call_update_user(AdminInputs)
  \/ Call_delete_user(AdminInputs)
  \/ Call_create_client(AdminInputs)
  \/ Call_update_client(AdminInputs)

SpecAdmin == InitWith(EmptyDb) /\ [][AdminNext]_vars

---------------------------------------------------------------------------
(* Claims on who changes the users, under SpecAdmin *)

C28_SessionMatchesUser ==
  (session.exists /\ session.is_authenticated)
    => /\ session.user_id \in DOMAIN db.users
       /\ session.role = db.users[session.user_id].role

---------------------------------------------------------------------------
(* Creating events: two commercials and a manager asking for events of     *)
(* their own clients, of the other's clients and of unknown clients, the   *)
(* clients changing hands in between.                                      *)

EventCreationInputs ==
  [sess |-> {"session"}, faults |-> BOOLEAN,
   client_ids |-> {1, 2},
   client_kw |-> {[commercial_contact_id |-> 2], [commercial_contact_id |-> 4]},
   event_data |-> {NewEvent(25, 30, c) : c \in {1, 2, 9}}]

EventCreationNext ==
  \/ \E u \in {"admin", "com", "com2"} : login(u, "pw")
  \/ Call_update_client(EventCreationInputs)
  \/ Call_create_event(EventCreationInputs)

SpecEventCreation == InitWith(SeedTeam) /\ [][EventCreationNext]_vars

---------------------------------------------------------------------------
(* Claims on create_event, under SpecEventCreation *)

(* C17: create_event called with a commercial session stores an event only  *)
(* when the client exists and its commercial_contact_id is the session's    *)
(* user_id; for a client of someone else it reports ACCESS_DENIED, for an   *)
(* unknown client CLIENT_NOT_FOUND, and in both cases no event is stored.   *)
C17_CreateEventOwnership ==
  [][(/\ ControllerCall
      /\ last'.op = "create_event"
      /\ Caller.exists
      /\ Caller.is_authenticated
      /\ Caller.role = "commercial")
     => LET c == last'.arg.client_id
            owned == c \in DOMAIN db.clients
                     /\ db.clients[c].commercial_contact_id = Caller.user_id
        IN /\ db'.events # db.events => owned
           /\ c \notin DOMAIN db.clients
                => last'.errs = <<"CLIENT_NOT_FOUND">> /\ db' = db /\ pending' = pending
           /\ (c \in DOMAIN db.clients /\ ~owned)
                => last'.errs = <<"ACCESS_DENIED">> /\ db' = db /\ pending' = pending]_vars

C17_Witness ==
  /\ last.op = "create_event"
  /\ last.invoked
  /\ last.errs = <<"ACCESS_DENIED">>
  /\ session.is_authenticated
  /\ session.role = "commercial"
  /\ last.arg.client_id \in DOMAIN db.clients
  /\ db.clients[last.arg.client_id].commercial_contact_id # session.user_id
  /\ db.events = SeedTeam.events

(* C21: create_event called by the commercial session that owns an existing *)
(* client, with start_datetime >= now and end_datetime >= start_datetime,    *)
(* persists exactly one new event of that client and reports one success     *)
(* and no error.                                                             *)
C21_CreateEventSucceeds ==
  [][(/\ ControllerCall
      /\ last'.op = "create_event"
      /\ Caller.exists
      /\ Caller.is_authenticated
      /\ Caller.role = "commercial"
      /\ last'.arg.client_id \in DOMAIN db.clients
      /\ db.clients[last'.arg.client_id].commercial_contact_id = Caller.user_id
      /\ last'.arg.start_datetime >= now
      /\ last'.arg.end_datetime >= last'.arg.start_datetime)
     => (/\ last'.errs = <<>>
         /\ last'.oks = 1
         /\ last'.raised = ""
         /\ \E id \in DOMAIN db'.events \ DOMAIN db.events :
              /\ DOMAIN db'.events = DOMAIN db.events \cup {id}
              /\ db'.events[id].client_id = last'.arg.client_id)]_vars

---------------------------------------------------------------------------
(* Logging in and out: known and unknown usernames, right and wrong        *)
(* passwords, while a manager renames, re-roles and deletes users; logout  *)
(* confirmed or not.                                                       *)

(* LoginController.logout(session): the answer of the confirmation prompt *)
logout(confirm) ==
  /\ session.exists
  /\ SessionStep("logout", session, <<>>, 0, Bool(confirm))

LoginInputs ==
  [sess |-> {"session"}, faults |-> {FALSE},
   user_ids |-> {3},
   user_kw |-> {[role |-> "commercial"], [username |-> "ghost"]},
   confirms |-> {TRUE}, failAts |-> {0}]

LoginNext ==
  \/ Tick(10)
  \/ \E u \in Usernames, p \in Passwords : login(u, p)
  \/ \E c \in BOOLEAN : logout(c)
  \/ call_is_valid
  \/ Call_update_user(LoginInputs)
  \/ Call_delete_user(LoginInputs)

SpecLogin == InitWith(SeedDb) /\ [][LoginNext]_vars

---------------------------------------------------------------------------
(* Claims on login and logout, under SpecLogin *)

(* C18: after LoginController.logout(session) has returned True, the        *)
(* session's is_authenticated is False.                                     *)
C18_LogoutEndsSession ==
  (last.op = "logout" /\ last.ret = "True") => ~session.is_authenticated

(* The stored users a username and password pair authenticates *)
Authenticates(username, password) ==
  {i \in DOMAIN db.users : /\ db.users[i].username = username
                           /\ db.users[i].password_hash = hash_password(password)}

---------------------------------------------------------------------------
(* User.update alone: each required field given as a new value, as a value *)
(* another user holds, as the empty string and as None.                    *)

(* user.update(db, **kw) *)
User_update_call(id, kw) ==
  /\ id \in DOMAIN pending.users
  /\ LET r == User_update(pending, id, kw)
     IN ModelStep("User_update", [id |-> id, kw |-> kw], r.err,
                  IF r.err = "" THEN "" ELSE "ValueError", r.P)

UserFields == {"username", "first_name", "last_name", "email", "role"}

UserUpdateKw ==
  {[username |-> v] : v \in {"", "admin", "u9"}}
  \cup {[first_name |-> v] : v \in {"", "m"}}
  \cup {[last_name |-> v] : v \in {"", "m"}}
  \cup {[email |-> v] : v \in {"", "admin"}}
  \cup {[role |-> v] : v \in {"", "support", "boss"}}
  \cup {[first_name |-> "", email |-> "u8"]}

UserUpdateNext ==
  \E kw \in UserUpdateKw : User_update_call(2, kw)

SpecUserUpdate == InitWith(SeedDb) /\ [][UserUpdateNext]_vars

(* A step that is a call of User.update *)
UserUpdateCall ==
  /\ last'.op = "User_update"
  /\ now' = now
  /\ session' = session

(* C24: User.update given the empty string for a required field leaves     *)
(* that field as stored, as it leaves a field passed as None (not given),   *)
(* and a call whose every given value is empty raises no error kind and     *)
(* changes nothing.                                                         *)
C24_EmptyIsNoChange ==
  [][UserUpdateCall
     => LET kw == last'.arg.kw
            id == last'.arg.id
            empty == {key \in DOMAIN kw : kw[key] = ""}
            none == UserFields \ DOMAIN kw
        IN /\ \A key \in empty \cup none : db'.users[id][key] = db.users[id][key]
           /\ empty = DOMAIN kw => (/\ last'.errs = <<>>
                                    /\ last'.raised = ""
                                    /\ db' = db)]_vars

---------------------------------------------------------------------------
(* Client.create and Client.update alone, the clock advancing: names,      *)
(* emails, business names and telephones given as values, as values        *)
(* another client holds and as empty strings.                              *)

(* Client.create(db, **d, commercial_contact_id) *)
Client_create_call(d, commercial_contact_id) ==
  LET r == Client_create(pending, d, commercial_contact_id, now)
  IN IF r.err # "" THEN ModelStep("Client_create", d, r.err, "ValueError", pending)
     ELSE /\ db.seq.clients < MaxRows
          /\ ModelStep("Client_create", d, "", "", db_add(pending, "clients", r.obj))

(* client.update(db, **kw) *)
Client_update_call(id, kw) ==
  /\ id \in DOMAIN pending.clients
  /\ LET r == Client_update(pending, id, kw, now)
     IN ModelStep("Client_update", [id |-> id, kw |-> kw], r.err,
                  IF r.err = "" THEN "" ELSE "ValueError", r.P)

ClientArgs ==
  {NewClient("c2"), NewClient("c1"), [NewClient("c2") EXCEPT !.first_name = ""],
   [NewClient("c2") EXCEPT !.business_name = "b"]}

ClientKw ==
  {[business_name |-> "b"], [telephone |-> "06"], [first_name |-> ""], [email |-> "c1"],
   [business_name |-> "", last_name |-> "m"]}

ClientsNext ==
  \/ Tick(15)
  \/ \E d \in ClientArgs : Client_create_call(d, 2)
  \/ \E kw \in ClientKw : Client_update_call(2, kw)

SpecClients == InitWith(SeedDb) /\ [][ClientsNext]_vars

(* A step that is a call of Client.update that returned *)
ClientUpdated ==
  /\ last'.op = "Client_update"
  /\ last'.raised = ""
  /\ now' = now
  /\ session' = session

C30_RequiredFieldsKept ==
  \A c \in DOMAIN db.clients :
    /\ Truthy(db.clients[c].first_name)
    /\ Truthy(db.clients[c].last_name)
    /\ Truthy(db.clients[c].email)

---------------------------------------------------------------------------
(* The entity objects themselves: Contract.update and Event.update called  *)
(* by a caller that catches the error and does not roll back, and a later  *)
(* commit of the Session.                                                  *)

(* One call of a method on an object of the Session, no rollback after it: *)
(* the object keeps the attributes the call assigned before it raised      *)
ObjectStep(op, arg, err, P) ==
  /\ pending' = P
  /\ last' = Last(op, "none", arg, TRUE, IF err = "" THEN <<>> ELSE <<err>>, 0,
                  IF err = "" THEN "" ELSE "ValueError", "")
  /\ UNCHANGED <<now, session, db>>

Contract_update_object(id, kw) ==
  /\ id \in DOMAIN pending.contracts
  /\ LET r == Contract_update(pending, id, kw)
     IN ObjectStep("Contract_update", [id |-> id, kw |-> kw], r.err, r.P)

Event_update_object(id, kw) ==
  /\ id \in DOMAIN pending.events
  /\ LET r == Event_update(pending, id, kw, now)
     IN ObjectStep("Event_update", [id |-> id, kw |-> kw], r.err, r.P)

(* db.commit() *)
commit ==
  /\ db' = pending
  /\ last' = Last("commit", "none", <<>>, TRUE, <<>>, 0, "", "")
  /\ UNCHANGED <<now, session, pending>>

ObjectContractKw ==
  {[total_price |-> 2, rest_to_pay |-> r] : r \in {1, 3}} \cup {[total_price |-> 0]}

ObjectEventKw ==
  {[name |-> "gala", start_datetime |-> s] : s \in {5, 25}}
  \cup {[attendees |-> 2, support_contact_id |-> 9]}

ObjectsNext ==
  \/ Tick(15)
  \/ \E kw \in ObjectContractKw : Contract_update_object(1, kw)
  \/ \E kw \in ObjectEventKw : Event_update_object(1, kw)
  \/ commit

SpecObjects == InitWith(SeedDb) /\ [][ObjectsNext]_vars

(* C27: a Contract.update or Event.update that raises an error kind has     *)
(* changed no attribute of the object, so that a commit without rollback    *)
(* persists nothing of the failed call.                                     *)
C27_AllOrNothing ==
  [][(/\ last'.op \in {"Contract_update", "Event_update"}
      /\ last'.raised # ""
      /\ now' = now
      /\ db' = db)
     => pending' = pending]_vars

---------------------------------------------------------------------------
(* The order of the checks: Event.create and Event.update given the same   *)
(* client, support contact and dates, stored and unknown, past and future, *)
(* in and out of order.                                                    *)

OrderKw ==
  {[client_id |-> c, support_contact_id |-> u, start_datetime |-> s, end_datetime |-> e] :
     c \in {1, 9}, u \in {3, 9}, s \in EventTimes, e \in EventTimes}

OrderNext ==
  \/ Tick(10)
  \/ \E kw \in OrderKw : Event_create_call(kw @@ NewEvent(0, 0, 0))
  \/ \E kw \in OrderKw : Event_update_call(1, kw)

SpecOrder == InitWith(SeedDb) /\ [][OrderNext]_vars

(* C29: given the same input, Event.update reports first the kind that      *)
(* Event.create reports first, whenever both reject it.                     *)
C29_SameFirstKind ==
  [][(/\ last'.op = "Event_update"
      /\ now' = now
      /\ session' = session
      /\ last'.raised # "")
     => LET kw == last'.arg.kw
            created == Event_create(pending, kw @@ NewEvent(0, 0, 0),
                                    kw.support_contact_id, now)
        IN created.err # "" => last'.errs = <<created.err>>]_vars

====
